---- MODULE Spec2Model ----
(***************************************************************************)
(* vcl::graphic::Manager (source/graphic/Manager.cxx): the registry of     *)
(* ImpGraphic objects, the running byte counter mnUsedSize, the eviction   *)
(* sweep reduceGraphicMemory / loopGraphicsAndSwapOut and its timer.       *)
(*                                                                         *)
(* A "proc" is one activation of registerGraphic or SwapOutTimerHandler.   *)
(* Everything a proc does while it owns maMutex is serialised by the       *)
(* mutex; the sweep gives the mutex up around ImpGraphic::swapOut, and in  *)
(* that window other procs and the objects' notifications interleave.      *)
(* ImpGraphic itself (impgraph.cxx) is not part of the sources at hand:    *)
(* the object's side of a swap (change the flag, then notify the manager)  *)
(* is modelled from the specification's collaborator contract.             *)
(***************************************************************************)
EXTENDS Integers, FiniteSets, Sequences, TLC

\* ------------------------------------------------------------------ bounds
NObj == 3          \* ImpGraphic objects that are ever created
NProc == 2         \* concurrent activations of registerGraphic / timer handler
MaxTime == 2       \* the clock runs 0..MaxTime (seconds)
MaxTicks == 2      \* timer ticks in one behaviour
MaxOps == 2        \* object-side operations (swap, resize, context, destroy)

\* -------------------------------------------------- program configuration
MemoryLimit == 1000000     \* mnMemoryLimit as configured (GraphicMemoryLimit)
AllowedIdleTime == 1       \* mnAllowedIdleTime as configured, in seconds
SwapSizeThreshold == 100000
Sizes == {100000, 600000}  \* the sizes getSizeBytes reports in this model

Objs == 1..NObj
Procs == 1..NProc

VARIABLES
    mnUsedSize,               \* sal_Int64 mnUsedSize
    mbReducingGraphicMemory,  \* re-entrancy guard
    mbSwapEnabled,            \* configuration, fixed after construction
    m_pImpGraphicList,        \* the registry (sorted_vector of raw pointers)
    maSwapOutTimer,           \* TRUE while the timer is started
    maMutex,                  \* 0 = free, otherwise the proc that owns it
    obj,                      \* the ImpGraphic objects
    pend,                     \* an object's notification not yet delivered
    proc,                     \* the activations
    now,                      \* high_resolution_clock, in seconds
    ticks,                    \* timer ticks so far
    ops,                      \* object-side operations so far
    newSinceSnapshot          \* history: addresses registered since the
                              \* running sweep copied the registry

vars == <<mnUsedSize, mbReducingGraphicMemory, mbSwapEnabled, m_pImpGraphicList,
          maSwapOutTimer, maMutex, obj, pend, proc, now, ticks, ops,
          newSinceSnapshot>>

mgrVars == <<mnUsedSize, mbReducingGraphicMemory, m_pImpGraphicList,
             maSwapOutTimer, maMutex>>

\* ------------------------------------------------------------- the objects
Unborn == [life |-> "unborn", swappedOut |-> FALSE, available |-> FALSE,
           size |-> 0, lastUsed |-> 0, context |-> FALSE]

\* a destroyed object: the manager may still hold its address in a snapshot
Dead == [life |-> "dead", swappedOut |-> FALSE, available |-> FALSE,
         size |-> 0, lastUsed |-> 0, context |-> FALSE]

NoPend == [k |-> "none", old |-> 0]

IdleProc == [pc |-> "idle", kind |-> "none", arg |-> 0, todo |-> {}, cur |-> 0,
             sz |-> 0]

Alive(o) == obj[o].life = "alive"

\* What a read through the raw pointer yields: the object's fields, or, for a
\* destroyed object, whatever the freed memory holds.
View(o) ==
    IF Alive(o) THEN {obj[o]}
    ELSE [life : {"dead"}, swappedOut : BOOLEAN, available : BOOLEAN,
          size : Sizes, lastUsed : 0..now, context : BOOLEAN]

\* Manager::getGraphicSizeBytes on what the pointer yields
getGraphicSizeBytesOf(v) == IF ~v.available THEN 0 ELSE v.size

getGraphicSizeBytes(o) == getGraphicSizeBytesOf(obj[o])

RECURSIVE SumSizes(_, _)
SumSizes(S, o) ==
    IF S = {} THEN 0
    ELSE LET x == CHOOSE y \in S : TRUE
         IN (IF ~o[x].swappedOut THEN getGraphicSizeBytesOf(o[x]) ELSE 0)
            + SumSizes(S \ {x}, o)

\* the loop "calculate size of the graphic set" over a registry and objects
calculatedSizeOf(list, o) == SumSizes(list, o)

calculatedSize == calculatedSizeOf(m_pImpGraphicList, obj)

Min(S) == CHOOSE x \in S : \A y \in S : x <= y

\* -------------------------------------------------------------- the sweep
\* the factor taken in integer arithmetic: 7 / 10 is 0
BelowTarget_IntegerFactor == mnUsedSize < MemoryLimit * (7 \div 10)

\* mnUsedSize < sal_Int64(mnMemoryLimit * 0.7)
BelowTarget == mnUsedSize < (MemoryLimit * 7) \div 10

IsSwappedOut(v) == v.swappedOut

LargeEnough_Inclusive(v) == getGraphicSizeBytesOf(v) >= SwapSizeThreshold

LargeEnough(v) == getGraphicSizeBytesOf(v) > SwapSizeThreshold

NoContext_Ignored(v) == TRUE

NoContext(v) == ~v.context

IdleLongEnough_Inclusive(v) == now - v.lastUsed >= AllowedIdleTime

IdleLongEnough(v) == now - v.lastUsed > AllowedIdleTime

\* the size comparison the wrong way round
SwapOutCandidate_SmallOnly(v) ==
    /\ ~IsSwappedOut(v)
    /\ ~LargeEnough(v)
    /\ NoContext(v)
    /\ IdleLongEnough(v)

\* the conditions under which the loop body reaches pEachImpGraphic->swapOut()
SwapOutCandidate(v) ==
    /\ ~IsSwappedOut(v)
    /\ LargeEnough(v)
    /\ NoContext(v)
    /\ IdleLongEnough(v)

\* without the test of mbSwapEnabled
ReduceEnters_NoSwapTest ==
    /\ ~(mnUsedSize < MemoryLimit)
    /\ ~mbReducingGraphicMemory

\* without the test of mbReducingGraphicMemory
ReduceEnters_NoGuard ==
    /\ mbSwapEnabled
    /\ ~(mnUsedSize < MemoryLimit)

\* reduceGraphicMemory's three early returns, negated
ReduceEnters ==
    /\ mbSwapEnabled
    /\ ~(mnUsedSize < MemoryLimit)
    /\ ~mbReducingGraphicMemory

RegisterOverLimit_Reversed == mnUsedSize < MemoryLimit

RegisterOverLimit_Inclusive == mnUsedSize >= MemoryLimit

\* registerGraphic: "make some space first"
RegisterOverLimit == mnUsedSize > MemoryLimit

\* a new activation takes the first proc that is free
FirstIdle(f) == proc[f].pc = "idle" /\ \A g \in Procs : g < f => proc[g].pc # "idle"

InCallback(f) == proc[f].pc \in {"swapOut", "notify"}

Sweeping(f) == proc[f].pc \in {"loop", "swapOut", "notify", "relock", "recompute"}

\* an object is inside one of its own operations
Busy(o) ==
    \/ pend[o].k # "none"
    \/ \E f \in Procs : InCallback(f) /\ proc[f].cur = o

StartSweep(kind, o) ==
    [pc |-> "loop", kind |-> kind, arg |-> o, todo |-> m_pImpGraphicList,
     cur |-> 0, sz |-> 0]

TypeOK ==
    /\ mnUsedSize \in Int
    /\ mbReducingGraphicMemory \in BOOLEAN
    /\ mbSwapEnabled \in BOOLEAN
    /\ m_pImpGraphicList \subseteq Objs
    /\ maSwapOutTimer \in BOOLEAN
    /\ maMutex \in 0..NProc
    /\ now \in 0..MaxTime
    /\ ticks \in 0..MaxTicks
    /\ ops \in 0..MaxOps
    /\ newSinceSnapshot \subseteq Objs

Init ==
    /\ mnUsedSize = 0
    /\ mbReducingGraphicMemory = FALSE
    /\ mbSwapEnabled \in BOOLEAN
    /\ m_pImpGraphicList = {}
    /\ maSwapOutTimer = mbSwapEnabled
    /\ maMutex = 0
    /\ obj = [o \in Objs |-> Unborn]
    /\ pend = [o \in Objs |-> NoPend]
    /\ proc = [f \in Procs |-> IdleProc]
    /\ now = 0
    /\ ticks = 0
    /\ ops = 0
    /\ newSinceSnapshot = {}

\* ------------------------------------------------------- registerGraphic
\* A factory operation constructs object o (size s, last used at t) and calls
\* registerGraphic: lock, then reduceGraphicMemory if over the limit.  The
\* caller is any thread, the one inside a swapOut callback included: a call
\* made by the callback is this action taken while the sweeping proc rests
\* in "swapOut".  Fresh addresses grow with the order of construction; the
\* allocator may also hand out the address of a destroyed object again.
RegisterCall(f, o, s, t) ==
    /\ FirstIdle(f)
    /\ \/ obj[o].life = "unborn" /\ \A x \in Objs : x < o => obj[x].life # "unborn"
       \/ obj[o].life = "dead"
    /\ maMutex = 0
    /\ obj' = [obj EXCEPT ![o] = [life |-> "alive", swappedOut |-> FALSE,
                                  available |-> TRUE, size |-> s,
                                  lastUsed |-> t, context |-> FALSE]]
    /\ maMutex' = f
    /\ IF RegisterOverLimit /\ ReduceEnters
       THEN /\ mbReducingGraphicMemory' = TRUE
            /\ newSinceSnapshot' = {}
            /\ proc' = [proc EXCEPT ![f] = StartSweep("register", o)]
       ELSE /\ mbReducingGraphicMemory' = mbReducingGraphicMemory
            /\ newSinceSnapshot' = newSinceSnapshot
            /\ proc' = [proc EXCEPT ![f] = [IdleProc EXCEPT !.pc = "insert",
                                      !.kind = "register", !.arg = o]]
    /\ UNCHANGED <<mnUsedSize, mbSwapEnabled, m_pImpGraphicList, maSwapOutTimer,
                   pend, now, ticks, ops>>

\* mnUsedSize after "Insert and update the used size" and the recomputation
UsedAfterInsert(o) ==
    LET added == mnUsedSize + getGraphicSizeBytes(o)
        calc == calculatedSizeOf(m_pImpGraphicList \cup {o}, obj)
    IN IF calc # added THEN calc ELSE added

\* a registration that is refused when the object does not fit the limit
RegisterInsert_RejectsOverLimit(f) ==
    /\ proc[f].pc = "insert"
    /\ maMutex = f
    /\ IF mnUsedSize + getGraphicSizeBytes(proc[f].arg) > MemoryLimit
       THEN UNCHANGED <<mnUsedSize, m_pImpGraphicList>>
       ELSE /\ mnUsedSize' = UsedAfterInsert(proc[f].arg)
            /\ m_pImpGraphicList' = m_pImpGraphicList \cup {proc[f].arg}
    /\ newSinceSnapshot' = IF mbReducingGraphicMemory
                           THEN newSinceSnapshot \cup {proc[f].arg}
                           ELSE newSinceSnapshot
    /\ maMutex' = 0
    /\ proc' = [proc EXCEPT ![f] = IdleProc]
    /\ UNCHANGED <<mbReducingGraphicMemory, mbSwapEnabled, maSwapOutTimer, obj,
                   pend, now, ticks, ops>>

RegisterInsert(f) ==
    /\ proc[f].pc = "insert"
    /\ maMutex = f
    /\ mnUsedSize' = UsedAfterInsert(proc[f].arg)
    /\ m_pImpGraphicList' = m_pImpGraphicList \cup {proc[f].arg}
    /\ newSinceSnapshot' = IF mbReducingGraphicMemory
                           THEN newSinceSnapshot \cup {proc[f].arg}
                           ELSE newSinceSnapshot
    /\ maMutex' = 0
    /\ proc' = [proc EXCEPT ![f] = IdleProc]
    /\ UNCHANGED <<mbReducingGraphicMemory, mbSwapEnabled, maSwapOutTimer, obj,
                   pend, now, ticks, ops>>

\* --------------------------------------------------- SwapOutTimerHandler
\* the handler without pTimer->Stop()
TimerCall_NoStop(f) ==
    /\ FirstIdle(f)
    /\ maSwapOutTimer
    /\ maMutex = 0
    /\ ticks < MaxTicks
    /\ ticks' = ticks + 1
    /\ maMutex' = f
    /\ IF ReduceEnters
       THEN /\ mbReducingGraphicMemory' = TRUE
            /\ newSinceSnapshot' = {}
            /\ proc' = [proc EXCEPT ![f] = StartSweep("timer", 0)]
       ELSE /\ mbReducingGraphicMemory' = mbReducingGraphicMemory
            /\ newSinceSnapshot' = newSinceSnapshot
            /\ proc' = [proc EXCEPT ![f] = [IdleProc EXCEPT !.pc = "restart",
                                                           !.kind = "timer"]]
    /\ UNCHANGED <<mnUsedSize, mbSwapEnabled, m_pImpGraphicList, maSwapOutTimer,
                   obj, pend, now, ops>>

TimerCall(f) ==
    /\ FirstIdle(f)
    /\ maSwapOutTimer
    /\ maMutex = 0
    /\ ticks < MaxTicks
    /\ ticks' = ticks + 1
    /\ maMutex' = f
    /\ maSwapOutTimer' = FALSE
    /\ IF ReduceEnters
       THEN /\ mbReducingGraphicMemory' = TRUE
            /\ newSinceSnapshot' = {}
            /\ proc' = [proc EXCEPT ![f] = StartSweep("timer", 0)]
       ELSE /\ mbReducingGraphicMemory' = mbReducingGraphicMemory
            /\ newSinceSnapshot' = newSinceSnapshot
            /\ proc' = [proc EXCEPT ![f] = [IdleProc EXCEPT !.pc = "restart",
                                                           !.kind = "timer"]]
    /\ UNCHANGED <<mnUsedSize, mbSwapEnabled, m_pImpGraphicList, obj, pend, now, ops>>

TimerRestart(f) ==
    /\ proc[f].pc = "restart"
    /\ maMutex = f
    /\ maSwapOutTimer' = TRUE
    /\ maMutex' = 0
    /\ proc' = [proc EXCEPT ![f] = IdleProc]
    /\ UNCHANGED <<mnUsedSize, mbReducingGraphicMemory, mbSwapEnabled,
                   m_pImpGraphicList, obj, pend, now, ticks, ops,
                   newSinceSnapshot>>

\* ------------------------------------------------ loopGraphicsAndSwapOut
\* the loop without rGuard.unlock() before the call of swapOut
LoopStep_KeepsMutex(f) ==
    /\ proc[f].pc = "loop"
    /\ maMutex = f
    /\ IF proc[f].todo = {} \/ BelowTarget
       THEN proc' = [proc EXCEPT ![f].pc = "recompute", ![f].cur = 0]
       ELSE LET o == Min(proc[f].todo)
            IN \E v \in View(o) :
                 IF SwapOutCandidate(v)
                 THEN proc' = [proc EXCEPT ![f].pc = "swapOut", ![f].cur = o,
                                      ![f].todo = proc[f].todo \ {o}]
                 ELSE proc' = [proc EXCEPT ![f].cur = o,
                                      ![f].todo = proc[f].todo \ {o}]
    /\ UNCHANGED <<mnUsedSize, mbReducingGraphicMemory, mbSwapEnabled, maMutex,
                   m_pImpGraphicList, maSwapOutTimer, obj, pend, now, ticks, ops,
                   newSinceSnapshot>>

\* One iteration of the loop over the snapshot (todo is what is left of it,
\* visited in pointer order; cur is pEachImpGraphic), or the end of the loop.
LoopStep(f) ==
    /\ proc[f].pc = "loop"
    /\ maMutex = f
    /\ IF proc[f].todo = {} \/ BelowTarget
       THEN /\ proc' = [proc EXCEPT ![f].pc = "recompute", ![f].cur = 0]
            /\ maMutex' = maMutex
       ELSE LET o == Min(proc[f].todo)
            IN \E v \in View(o) :
                 IF SwapOutCandidate(v)
                 THEN /\ proc' = [proc EXCEPT ![f].pc = "swapOut", ![f].cur = o,
                                        ![f].todo = proc[f].todo \ {o}]
                      /\ maMutex' = 0
                 ELSE /\ proc' = [proc EXCEPT ![f].cur = o,
                                        ![f].todo = proc[f].todo \ {o}]
                      /\ maMutex' = maMutex
    /\ UNCHANGED <<mnUsedSize, mbReducingGraphicMemory, mbSwapEnabled,
                   m_pImpGraphicList, maSwapOutTimer, obj, pend, now, ticks, ops,
                   newSinceSnapshot>>

\* ImpGraphic::swapOut as the sweep calls it: nothing if already swapped
\* out, otherwise the payload goes and the flag is set.
CallbackSwapOut(f) ==
    /\ proc[f].pc = "swapOut"
    /\ LET o == proc[f].cur
       IN \E v \in View(o) :
            IF IsSwappedOut(v)
            THEN /\ proc' = [proc EXCEPT ![f].pc = "relock"]
                 /\ obj' = obj
            ELSE /\ proc' = [proc EXCEPT ![f].pc = "notify", ![f].sz = v.size]
                 /\ obj' = IF Alive(o)
                           THEN [obj EXCEPT ![o].swappedOut = TRUE,
                                            ![o].available = FALSE]
                           ELSE obj
    /\ UNCHANGED <<mgrVars, mbSwapEnabled, pend, now, ticks, ops,
                   newSinceSnapshot>>

\* Manager::swappedOut
UsedAfterSwappedOut(nSizeBytes) == mnUsedSize - nSizeBytes

\* Manager::swappedIn
UsedAfterSwappedIn(nSizeBytes) == mnUsedSize + nSizeBytes

\* Manager::changeExisting
UsedAfterChangeExisting(o, nOldSizeBytes) ==
    (mnUsedSize - nOldSizeBytes) + getGraphicSizeBytes(o)

\* the callback's Manager::swappedOut(this, size), then swapOut returns
CallbackNotify(f) ==
    /\ proc[f].pc = "notify"
    /\ maMutex = 0
    /\ mnUsedSize' = UsedAfterSwappedOut(proc[f].sz)
    /\ proc' = [proc EXCEPT ![f].pc = "relock", ![f].sz = 0]
    /\ UNCHANGED <<mbReducingGraphicMemory, mbSwapEnabled, m_pImpGraphicList,
                   maSwapOutTimer, maMutex, obj, pend, now, ticks, ops,
                   newSinceSnapshot>>

\* rGuard.lock() after the callback
Relock(f) ==
    /\ proc[f].pc = "relock"
    /\ maMutex = 0
    /\ maMutex' = f
    /\ proc' = [proc EXCEPT ![f].pc = "loop", ![f].cur = 0]
    /\ UNCHANGED <<mnUsedSize, mbReducingGraphicMemory, mbSwapEnabled,
                   m_pImpGraphicList, maSwapOutTimer, obj, pend, now, ticks, ops,
                   newSinceSnapshot>>

\* the end of the sweep without the correction of mnUsedSize
SweepFinish_NoCorrection(f) ==
    /\ proc[f].pc = "recompute"
    /\ maMutex = f
    /\ mbReducingGraphicMemory' = FALSE
    /\ newSinceSnapshot' = {}
    /\ proc' = [proc EXCEPT ![f].pc =
                    IF proc[f].kind = "register" THEN "insert" ELSE "restart",
                            ![f].todo = {}]
    /\ UNCHANGED <<mnUsedSize, mbSwapEnabled, m_pImpGraphicList, maSwapOutTimer,
                   maMutex, obj, pend, now, ticks, ops>>

\* the end of the sweep without mbReducingGraphicMemory = false
SweepFinish_GuardKept(f) ==
    /\ proc[f].pc = "recompute"
    /\ maMutex = f
    /\ mnUsedSize' = IF calculatedSize # mnUsedSize THEN calculatedSize ELSE mnUsedSize
    /\ newSinceSnapshot' = {}
    /\ proc' = [proc EXCEPT ![f].pc =
                    IF proc[f].kind = "register" THEN "insert" ELSE "restart",
                            ![f].todo = {}]
    /\ UNCHANGED <<mbReducingGraphicMemory, mbSwapEnabled, m_pImpGraphicList,
                   maSwapOutTimer, maMutex, obj, pend, now, ticks, ops>>

\* reduceGraphicMemory after the loop: recompute, correct, clear the guard
SweepFinish(f) ==
    /\ proc[f].pc = "recompute"
    /\ maMutex = f
    /\ mnUsedSize' = IF calculatedSize # mnUsedSize THEN calculatedSize ELSE mnUsedSize
    /\ mbReducingGraphicMemory' = FALSE
    /\ newSinceSnapshot' = {}
    /\ proc' = [proc EXCEPT ![f].pc =
                    IF proc[f].kind = "register" THEN "insert" ELSE "restart",
                            ![f].todo = {}]
    /\ UNCHANGED <<mbSwapEnabled, m_pImpGraphicList, maSwapOutTimer, maMutex,
                   obj, pend, now, ticks, ops>>

\* ------------------------------------------------------ unregisterGraphic
\* the object is destroyed by the thread that owns it
Unregister(o) ==
    /\ Alive(o)
    /\ o \in m_pImpGraphicList
    /\ ~Busy(o)
    /\ maMutex = 0
    /\ ops < MaxOps
    /\ ops' = ops + 1
    /\ mnUsedSize' = mnUsedSize - getGraphicSizeBytes(o)
    /\ m_pImpGraphicList' = m_pImpGraphicList \ {o}
    /\ obj' = [obj EXCEPT ![o] = Dead]
    /\ UNCHANGED <<mbReducingGraphicMemory, mbSwapEnabled, maSwapOutTimer,
                   maMutex, pend, proc, now, ticks,
                   newSinceSnapshot>>

\* ------------------------------------- the objects' own swaps and resizes
\* a thread swaps object o in: the payload is back, the flag is cleared,
\* and the manager is notified afterwards
SwapInBegin(o) ==
    /\ Alive(o)
    /\ obj[o].swappedOut
    /\ ~Busy(o)
    /\ ops < MaxOps
    /\ ops' = ops + 1
    /\ obj' = [obj EXCEPT ![o].swappedOut = FALSE, ![o].available = TRUE,
                          ![o].lastUsed = now]
    /\ pend' = [pend EXCEPT ![o] = [k |-> "in", old |-> obj[o].size]]
    /\ UNCHANGED <<mgrVars, mbSwapEnabled, proc, now, ticks,
                   newSinceSnapshot>>

\* a thread other than the sweep swaps object o out
SwapOutBegin(o) ==
    /\ Alive(o)
    /\ o \in m_pImpGraphicList
    /\ ~obj[o].swappedOut
    /\ obj[o].available
    /\ ~Busy(o)
    /\ ops < MaxOps
    /\ ops' = ops + 1
    /\ obj' = [obj EXCEPT ![o].swappedOut = TRUE, ![o].available = FALSE]
    /\ pend' = [pend EXCEPT ![o] = [k |-> "out", old |-> obj[o].size]]
    /\ UNCHANGED <<mgrVars, mbSwapEnabled, proc, now, ticks,
                   newSinceSnapshot>>

\* a swapped-in object's footprint changes in place
ResizeBegin(o, s) ==
    /\ Alive(o)
    /\ o \in m_pImpGraphicList
    /\ ~obj[o].swappedOut
    /\ obj[o].available
    /\ ~Busy(o)
    /\ s # obj[o].size
    /\ ops < MaxOps
    /\ ops' = ops + 1
    /\ obj' = [obj EXCEPT ![o].size = s, ![o].lastUsed = now]
    /\ pend' = [pend EXCEPT ![o] = [k |-> "resize", old |-> obj[o].size]]
    /\ UNCHANGED <<mgrVars, mbSwapEnabled, proc, now, ticks,
                   newSinceSnapshot>>

\* Manager::swappedIn / swappedOut / changeExisting, each under the mutex
Notify(o) ==
    /\ pend[o].k # "none"
    /\ maMutex = 0
    /\ mnUsedSize' = CASE pend[o].k = "in" -> UsedAfterSwappedIn(pend[o].old)
                       [] pend[o].k = "out" -> UsedAfterSwappedOut(pend[o].old)
                       [] OTHER -> UsedAfterChangeExisting(o, pend[o].old)
    /\ pend' = [pend EXCEPT ![o] = NoPend]
    /\ UNCHANGED <<mbReducingGraphicMemory, mbSwapEnabled, m_pImpGraphicList,
                   maSwapOutTimer, maMutex, obj, proc, now, ticks, ops,
                   newSinceSnapshot>>

\* an external operation (a decode filter) takes or releases the object
SetContext(o, b) ==
    /\ Alive(o)
    /\ ~Busy(o)
    /\ obj[o].context # b
    /\ ops < MaxOps
    /\ ops' = ops + 1
    /\ obj' = [obj EXCEPT ![o].context = b]
    /\ UNCHANGED <<mgrVars, mbSwapEnabled, pend, proc, now, ticks,
                   newSinceSnapshot>>

ClockTick ==
    /\ now < MaxTime
    /\ now' = now + 1
    /\ UNCHANGED <<mgrVars, mbSwapEnabled, obj, pend, proc, ticks, ops,
                   newSinceSnapshot>>

Next ==
    \/ \E f \in Procs, o \in Objs, s \in Sizes : RegisterCall(f, o, s, now)
    \/ \E f \in Procs : RegisterInsert(f)
    \/ \E f \in Procs : TimerCall(f)
    \/ \E f \in Procs : TimerRestart(f)
    \/ \E f \in Procs : LoopStep(f)
    \/ \E f \in Procs : CallbackSwapOut(f)
    \/ \E f \in Procs : CallbackNotify(f)
    \/ \E f \in Procs : Relock(f)
    \/ \E f \in Procs : SweepFinish(f)
    \/ \E o \in Objs : Unregister(o)
    \/ \E o \in Objs : SwapInBegin(o)
    \/ \E o \in Objs : SwapOutBegin(o)
    \/ \E o \in Objs, s \in Sizes : ResizeBegin(o, s)
    \/ \E o \in Objs : Notify(o)
    \/ \E o \in Objs, b \in BOOLEAN : SetContext(o, b)
    \/ ClockTick

Spec == Init /\ [][Next]_vars

\* ------------------------------------------------------------- scheduling
\* A manager operation that has started keeps running: its thread is
\* scheduled, every swapOut returns, and a thread waiting for the mutex gets
\* it once the mutex stays free.
RunsOn(f) ==
    \/ RegisterInsert(f) \/ TimerRestart(f) \/ LoopStep(f)
    \/ CallbackSwapOut(f) \/ CallbackNotify(f) \/ Relock(f) \/ SweepFinish(f)

FairSpec == Spec /\ \A f \in Procs : WF_vars(RunsOn(f))

\* ---------------------------------------------------- the scenario of C9
\* memoryLimit = 1,000,000, swap enabled, three objects of 500,000 bytes, no
\* active operation, no object-side operation; the timer ticks only after the
\* three registrations, once every object is idle for longer than the timeout.
ScenarioObjs == 1..3

ScenarioSize == 500000

ScenarioRegistered == \A o \in ScenarioObjs : Alive(o) /\ o \in m_pImpGraphicList

ScenarioInit ==
    /\ mnUsedSize = 0
    /\ mbReducingGraphicMemory = FALSE
    /\ mbSwapEnabled = TRUE
    /\ m_pImpGraphicList = {}
    /\ maSwapOutTimer = TRUE
    /\ maMutex = 0
    /\ obj = [o \in Objs |-> Unborn]
    /\ pend = [o \in Objs |-> NoPend]
    /\ proc = [f \in Procs |-> IdleProc]
    /\ now = 0
    /\ ticks = 0
    /\ ops = MaxOps
    /\ newSinceSnapshot = {}

ScenarioTimerCall(f) ==
    /\ ScenarioRegistered
    /\ \A o \in ScenarioObjs : IdleLongEnough(obj[o])
    /\ TimerCall(f)

ScenarioNext ==
    \/ \E f \in Procs, o \in ScenarioObjs, t \in 0..now :
           RegisterCall(f, o, ScenarioSize, t)
    \/ \E f \in Procs : RegisterInsert(f)
    \/ \E f \in Procs : ScenarioTimerCall(f)
    \/ \E f \in Procs : TimerRestart(f)
    \/ \E f \in Procs : LoopStep(f)
    \/ \E f \in Procs : CallbackSwapOut(f)
    \/ \E f \in Procs : CallbackNotify(f)
    \/ \E f \in Procs : Relock(f)
    \/ \E f \in Procs : SweepFinish(f)
    \/ ClockTick

ScenarioSpec == ScenarioInit /\ [][ScenarioNext]_vars

\* ------------------------------------------------------------ the claims
\* no manager operation and no object notification is in flight
Quiescent ==
    /\ \A f \in Procs : proc[f].pc = "idle"
    /\ \A o \in Objs : pend[o].k = "none"

\* C1: at every quiescent point usedBytes equals the sum of the sizes of the
\* registry members that are not swapped out.
C1_UsedEqualsSumWhenQuiescent == Quiescent => mnUsedSize = calculatedSize

InvokesSwapOut(f) == proc[f].pc = "loop" /\ proc'[f].pc = "swapOut"

\* C3: the sweep calls swapOut only on objects that are swapped in and whose
\* size is strictly above 100,000 bytes.
C3_OnlyLargeSwappedInObjects ==
    [][\A f \in Procs :
          (InvokesSwapOut(f) /\ Alive(proc'[f].cur)) =>
              /\ ~obj[proc'[f].cur].swappedOut
              /\ obj[proc'[f].cur].available
              /\ obj[proc'[f].cur].size > 100000]_vars

\* the sweep has just passed over an object of exactly 100,000 bytes that is
\* otherwise a candidate, while usage is not below the target
C3_Witness ==
    \E f \in Procs, o \in Objs :
        /\ proc[f].pc = "loop" /\ proc[f].cur = o
        /\ Alive(o) /\ o \in m_pImpGraphicList
        /\ ~obj[o].swappedOut /\ obj[o].size = 100000 /\ ~obj[o].context
        /\ now - obj[o].lastUsed > AllowedIdleTime
        /\ mnUsedSize >= 700000

\* C4: the sweep never calls swapOut once usedBytes is below
\* floor(0.7 x memoryLimit); its next step is then to leave the loop, with the
\* rest of the snapshot unvisited.
C4_HaltsBelowTarget ==
    [][\A f \in Procs :
          /\ InvokesSwapOut(f) => 10 * mnUsedSize >= 7 * MemoryLimit
          /\ (/\ proc[f].pc = "loop"
              /\ 10 * mnUsedSize < 7 * MemoryLimit
              /\ proc'[f] # proc[f])
             => (proc'[f].pc = "recompute" /\ proc'[f].todo = proc[f].todo)]_vars

\* the sweep has left the loop below the target with a candidate unvisited
C4_Witness ==
    \E f \in Procs, o \in Objs :
        /\ proc[f].pc = "recompute"
        /\ 10 * mnUsedSize < 7 * MemoryLimit
        /\ o \in proc[f].todo
        /\ Alive(o) /\ ~obj[o].swappedOut /\ obj[o].size > 100000
        /\ ~obj[o].context /\ now - obj[o].lastUsed > AllowedIdleTime

\* C5: the sweep calls swapOut only on objects whose idle duration, in whole
\* seconds, strictly exceeds idleTimeout.
C5_OnlyIdleObjects ==
    [][\A f \in Procs :
          (InvokesSwapOut(f) /\ Alive(proc'[f].cur)) =>
              now - obj[proc'[f].cur].lastUsed > AllowedIdleTime]_vars

\* the sweep has just passed over an object idle for exactly idleTimeout
\* that is otherwise a candidate
C5_Witness ==
    \E f \in Procs, o \in Objs :
        /\ proc[f].pc = "loop" /\ proc[f].cur = o
        /\ Alive(o) /\ o \in m_pImpGraphicList
        /\ ~obj[o].swappedOut /\ obj[o].size > 100000 /\ ~obj[o].context
        /\ now - obj[o].lastUsed = AllowedIdleTime
        /\ mnUsedSize >= 700000

\* C6: when the sweep reaches a registered, swapped-in object without active
\* operation, larger than 100,000 bytes and idle for more than idleTimeout,
\* and usage is not below the target, it calls swapOut on that object.
C6_EligibleObjectIsSwappedOut ==
    [][\A f \in Procs :
          (/\ proc[f].pc = "loop"
           /\ proc[f].todo # {}
           /\ 10 * mnUsedSize >= 7 * MemoryLimit
           /\ LET o == Min(proc[f].todo)
              IN /\ Alive(o) /\ o \in m_pImpGraphicList
                 /\ ~obj[o].swappedOut /\ obj[o].available /\ ~obj[o].context
                 /\ obj[o].size > 100000
                 /\ now - obj[o].lastUsed > AllowedIdleTime
           /\ proc'[f] # proc[f])
          => (proc'[f].pc = "swapOut" /\ proc'[f].cur = Min(proc[f].todo))]_vars

\* the swapOut the sweep called has swapped the object out
C6_Witness ==
    \E f \in Procs :
        /\ proc[f].pc = "notify"
        /\ Alive(proc[f].cur) /\ proc[f].cur \in m_pImpGraphicList
        /\ obj[proc[f].cur].swappedOut
        /\ proc[f].sz > 100000

\* C7: at most one sweep is active and it is the holder of the guard; while
\* the guard is set, a registerGraphic or a timer tick enters no sweep and
\* leaves the guard alone; and when a registerGraphic returns, usedBytes is
\* the sum over the registry, the new object counted once.
C7_NoRecursiveEviction ==
    /\ [](/\ Cardinality({f \in Procs : Sweeping(f)}) <= 1
          /\ (\E f \in Procs : Sweeping(f)) <=> mbReducingGraphicMemory)
    /\ [][\A g \in Procs :
             /\ (mbReducingGraphicMemory /\ proc[g].pc = "idle" /\ proc'[g].pc # "idle")
                => (/\ proc'[g].pc \in {"insert", "restart"}
                    /\ mbReducingGraphicMemory'
                    /\ mnUsedSize' = mnUsedSize
                    /\ \A o \in Objs : obj'[o].swappedOut = obj[o].swappedOut)
             /\ (proc[g].pc = "insert" /\ proc'[g].pc = "idle")
                => (/\ proc[g].arg \in m_pImpGraphicList'
                    /\ mnUsedSize' = calculatedSize')]_vars

\* a registerGraphic that found usage above the limit while another proc is
\* inside a swapOut callback of its sweep, and was turned away by the guard
C7_Witness ==
    \E f, g \in Procs :
        /\ f # g
        /\ proc[f].pc = "swapOut"
        /\ proc[g].pc = "insert" /\ proc[g].kind = "register"
        /\ mbSwapEnabled /\ mbReducingGraphicMemory
        /\ mnUsedSize > MemoryLimit

\* the step in which proc f enters registerGraphic
EntersRegister(f) == proc[f].pc = "idle" /\ proc'[f].kind = "register"

\* C8 as stated: a registerGraphic that would take the sum of the registered
\* swapped-in sizes above memoryLimit (swap enabled, no sweep in progress)
\* runs the sweep before inserting the object.
C8_SweepWhenTotalWouldExceed ==
    [][\A f \in Procs :
          (/\ EntersRegister(f)
           /\ mbSwapEnabled /\ ~mbReducingGraphicMemory
           /\ calculatedSize + obj'[proc'[f].arg].size > MemoryLimit)
          => proc'[f].pc = "loop"]_vars

\* C8, amended: a registerGraphic entered with usedBytes already above
\* memoryLimit (swap enabled, no sweep in progress) runs the sweep before
\* the object is inserted and before its size is added; entered otherwise,
\* it inserts the object without sweeping.
C8_SweepWhenAlreadyOverLimit ==
    /\ [][\A f \in Procs :
             EntersRegister(f) =>
                 IF mnUsedSize > MemoryLimit /\ mbSwapEnabled /\ ~mbReducingGraphicMemory
                 THEN /\ proc'[f].pc = "loop"
                      /\ proc'[f].arg \notin m_pImpGraphicList'
                      /\ mnUsedSize' = mnUsedSize
                 ELSE proc'[f].pc = "insert"]_vars
    /\ [](\A f \in Procs :
             (proc[f].kind = "register" /\ Sweeping(f))
                 => proc[f].arg \notin m_pImpGraphicList)

\* a sweep inside registerGraphic has swapped an object out and the object
\* being registered is not yet in the registry
C8_Witness ==
    \E f \in Procs :
        /\ proc[f].kind = "register" /\ proc[f].pc = "relock"
        /\ Alive(proc[f].cur) /\ obj[proc[f].cur].swappedOut
        /\ proc[f].arg \notin m_pImpGraphicList

AllIdle == \A f \in Procs : proc[f].pc = "idle"

\* C9 as stated: in the scenario, once the third registerGraphic has
\* returned, usedBytes is below 700,000.
C9_SweepWithinRegistrations ==
    (ScenarioRegistered /\ AllIdle) => mnUsedSize < 700000

\* C9, amended: in the scenario, when the third registerGraphic has returned
\* usedBytes is 1,500,000 and no object is swapped out, no sweep having run
\* (each call tests usedBytes > memoryLimit before it adds the object); the
\* sweep runs at the next timer tick and leaves usedBytes below 700,000.
C9_SweepAtNextTick ==
    /\ (ScenarioRegistered /\ AllIdle /\ ticks = 0)
       => (/\ mnUsedSize = 1500000
           /\ \A o \in ScenarioObjs : ~obj[o].swappedOut)
    /\ (AllIdle /\ ticks >= 1) => mnUsedSize < 700000

\* the tick after the three registrations has swapped two objects out
C9_Witness ==
    /\ ScenarioRegistered /\ AllIdle /\ ticks = 1
    /\ mnUsedSize = 500000
    /\ Cardinality({o \in ScenarioObjs : obj[o].swappedOut}) = 2

\* C10: when the notification of a swap-in that follows a swap-out of the
\* same object is delivered, and nothing else is in flight, usedBytes counts
\* the object once, whatever was interleaved between flag and notification.
C10_RoundTripCountsOnce ==
    [][\A o \in Objs :
          (/\ pend[o].k = "in" /\ pend'[o].k = "none"
           /\ AllIdle
           /\ \A x \in Objs : pend'[x].k = "none")
          => mnUsedSize' = calculatedSize']_vars

\* a step of a manager operation that is under way can be taken
OperationCanStep ==
    \E f \in Procs :
        ENABLED (\/ RegisterInsert(f) \/ TimerRestart(f) \/ LoopStep(f)
                 \/ CallbackSwapOut(f) \/ CallbackNotify(f) \/ Relock(f)
                 \/ SweepFinish(f))

\* C11: the sweeping proc does not own the mutex while swapOut executes: it
\* unlocks in the step that calls swapOut and relocks in the step after its
\* return; whoever owns the mutex is not waiting for anything, and while an
\* operation or a notification is under way some step of it can be taken.
C11_MutexFreeDuringSwapOut ==
    /\ [](/\ \A f \in Procs :
                proc[f].pc \in {"swapOut", "notify", "relock"} => maMutex # f
          /\ \A f \in Procs :
                maMutex = f => proc[f].pc \in {"insert", "restart", "loop", "recompute"}
          /\ (\E f \in Procs : proc[f].pc # "idle") => OperationCanStep)
    /\ [][\A f \in Procs :
             /\ InvokesSwapOut(f) => (maMutex = f /\ maMutex' = 0)
             /\ (proc[f].pc = "relock" /\ proc'[f].pc = "loop")
                => (maMutex = 0 /\ maMutex' = f)]_vars

\* while one proc is inside a swapOut callback, a registerGraphic of another
\* caller has taken the mutex
C11_Witness ==
    \E f, g \in Procs :
        /\ f # g
        /\ proc[f].pc = "swapOut"
        /\ proc[g].pc = "insert" /\ proc[g].kind = "register"
        /\ maMutex = g

\* the step in which registerGraphic, unregisterGraphic, swappedIn,
\* swappedOut or changeExisting returns
MutatingCallReturns ==
    \/ \E f \in Procs : proc[f].pc = "insert" /\ proc'[f].pc = "idle"
    \/ \E f \in Procs : proc[f].pc = "notify" /\ proc'[f].pc = "relock"
    \/ \E o \in Objs : o \in m_pImpGraphicList /\ o \notin m_pImpGraphicList'
    \/ \E o \in Objs : pend[o].k # "none" /\ pend'[o].k = "none"

\* C12: when register, unregister, notifySwappedIn, notifySwappedOut or
\* notifyResized returns, usedBytes equals the sum of the sizes of the
\* swapped-in registry members, whatever it was before the call.
C12_EveryPathSelfCorrects ==
    [][MutatingCallReturns => mnUsedSize' = calculatedSize']_vars

\* C13: a registerGraphic or a timer tick entered with swapping disabled, or
\* with usedBytes below memoryLimit, runs no sweep and leaves usedBytes, the
\* registry, the guard and every object's swapped-out flag as they were at
\* entry; with swapping disabled the timer is never started and no sweep is
\* ever under way.
C13_EntryConditionsAreNoOps ==
    /\ [][\A f \in Procs :
             (/\ proc[f].pc = "idle" /\ proc'[f].pc # "idle"
              /\ (~mbSwapEnabled \/ mnUsedSize < MemoryLimit))
             => (/\ proc'[f].pc \in {"insert", "restart"}
                 /\ mnUsedSize' = mnUsedSize
                 /\ m_pImpGraphicList' = m_pImpGraphicList
                 /\ mbReducingGraphicMemory' = mbReducingGraphicMemory
                 /\ \A o \in Objs : Alive(o) => obj'[o].swappedOut = obj[o].swappedOut)]_vars
    /\ [](~mbSwapEnabled =>
             (/\ ~maSwapOutTimer
              /\ ~mbReducingGraphicMemory
              /\ \A f \in Procs : ~Sweeping(f) /\ proc[f].kind # "timer"))

\* with swapping disabled, a registerGraphic entered above the limit goes on
\* to insert its object without sweeping
C13_Witness ==
    \E f \in Procs :
        /\ ~mbSwapEnabled
        /\ proc[f].pc = "insert"
        /\ mnUsedSize > MemoryLimit
        /\ \E o \in m_pImpGraphicList : SwapOutCandidate(obj[o])

\* C14: every registerGraphic that has reached its insertion can complete,
\* and when it returns its object is in the registry, whether usedBytes is
\* at, below or above memoryLimit and whether or not a sweep is in progress.
C14_RegisterAlwaysSucceeds ==
    /\ [](\A f \in Procs : proc[f].pc = "insert" => ENABLED RegisterInsert(f))
    /\ [][\A f \in Procs :
             (proc[f].kind = "register" /\ proc'[f].pc = "idle")
             => (/\ proc[f].pc = "insert"
                 /\ proc[f].arg \in m_pImpGraphicList'
                 /\ Alive(proc[f].arg))]_vars

\* an object registered during another proc's sweep (it is past the object
\* the sweep is at and not in what is left of the snapshot) is in the
\* registry with usedBytes above memoryLimit
C14_Witness ==
    \E f \in Procs, o \in Objs :
        /\ proc[f].pc = "swapOut"
        /\ \A g \in Procs : g # f => proc[g].pc = "idle"
        /\ o \in m_pImpGraphicList /\ o > proc[f].cur /\ o \notin proc[f].todo
        /\ mnUsedSize > MemoryLimit

\* C15: at most one timer tick is under way; the timer is stopped exactly
\* while a tick is under way, the windows in which the tick's sweep has given
\* up the mutex included; and the step that ends a tick starts the timer.
C15_TicksNeverOverlap ==
    /\ [](/\ Cardinality({f \in Procs : proc[f].kind = "timer"}) <= 1
          /\ mbSwapEnabled =>
                ((\E f \in Procs : proc[f].kind = "timer") <=> ~maSwapOutTimer))
    /\ [][\A f \in Procs :
             /\ (proc[f].pc = "idle" /\ proc'[f].kind = "timer")
                => (maSwapOutTimer /\ ~maSwapOutTimer')
             /\ (proc[f].kind = "timer" /\ proc'[f].pc = "idle")
                => maSwapOutTimer']_vars

\* the second tick's sweep is inside a swapOut callback, the mutex released
\* and every other proc idle
C15_Witness ==
    \E f \in Procs :
        /\ ticks = 2
        /\ proc[f].kind = "timer" /\ proc[f].pc = "swapOut"
        /\ maMutex = 0
        /\ \A g \in Procs : g # f => proc[g].pc = "idle"

\* C16: the step that ends a sweep, taken by the owner of the mutex, leaves
\* usedBytes equal to the sum of the sizes of the swapped-in members of the
\* registry as it is then, whether the loop ran to the end of the snapshot
\* or halted at the target.
C16_SweepEndsWithTrueSum ==
    [][\A f \in Procs :
          (proc[f].pc = "recompute" /\ proc'[f].pc # "recompute")
          => (/\ maMutex = f /\ maMutex' = f
              /\ mnUsedSize' = calculatedSizeOf(m_pImpGraphicList', obj'))]_vars

\* a sweep that halted at the target is about to recompute: an object of its
\* snapshot was unregistered meanwhile and usedBytes is off the true sum
C16_Witness ==
    \E f \in Procs, o \in Objs :
        /\ proc[f].pc = "recompute"
        /\ o \in proc[f].todo /\ ~Alive(o) /\ o \notin m_pImpGraphicList
        /\ mnUsedSize # calculatedSize

\* C17: the guard is set only while a sweep is under way, the sweep that set
\* it clears it in its last step, by either exit of the loop, and (every
\* started operation running on) a set guard is eventually cleared.
C17_GuardAlwaysReleased ==
    /\ []((\A f \in Procs : ~Sweeping(f)) => ~mbReducingGraphicMemory)
    /\ [][\A f \in Procs :
             (Sweeping(f) /\ ~Sweeping(f)') => ~mbReducingGraphicMemory']_vars
    /\ (mbReducingGraphicMemory ~> ~mbReducingGraphicMemory)

\* a tick's sweep has ended with usage still at or above the limit and the
\* guard is clear again
C17_Witness ==
    \E f \in Procs :
        /\ proc[f].kind = "timer" /\ proc[f].pc = "restart"
        /\ mbSwapEnabled
        /\ mnUsedSize >= MemoryLimit
        /\ ~mbReducingGraphicMemory

\* the step in which the sweep of proc f takes the next object of its snapshot
VisitsNext(f) == proc[f].pc = "loop" /\ proc'[f].todo # proc[f].todo

\* C18: the sweep visits, and calls swapOut on, no object registered since it
\* copied the registry; what is left of the snapshot only shrinks, by exactly
\* the object visited, so that every snapshotted object is visited and has
\* swapOut called at most once and the loop ends within |snapshot| iterations.
C18_SweepIteratesSnapshot ==
    [][\A f \in Procs :
          /\ VisitsNext(f) =>
                /\ proc'[f].cur \notin newSinceSnapshot
                /\ proc'[f].cur \in proc[f].todo
                /\ proc'[f].todo = proc[f].todo \ {proc'[f].cur}
          /\ (proc[f].pc = "swapOut" /\ proc'[f].pc # "swapOut")
                => proc[f].cur \notin newSinceSnapshot
          /\ (Sweeping(f) /\ Sweeping(f)' /\ ~VisitsNext(f))
                => proc'[f].todo = proc[f].todo]_vars

\* C19: every object the sweep takes from its snapshot to inspect, and every
\* object whose swapOut it runs, is a member of the registry at that moment.
C19_SweepTouchesOnlyRegistered ==
    [][\A f \in Procs :
          /\ VisitsNext(f) => proc'[f].cur \in m_pImpGraphicList
          /\ (proc[f].pc = "swapOut" /\ proc'[f].pc # "swapOut")
                => proc[f].cur \in m_pImpGraphicList]_vars

\* C20: usedBytes is never negative.
C20_UsedNeverNegative == mnUsedSize >= 0

====
